---- MODULE Spec2Model ----
(***************************************************************************)
(* Model of the IPv6 trie data plane of lib/usr/clib/fib/trie.c: the       *)
(* packed tables tbl24/tbl8, the tbl8 page pool, the range-install engine  *)
(* (build_common_root, write_edge, install_to_dp, recycle_root_path,       *)
(* tbl8_recycle) and the modify driver (modify_dp, trie_modify).           *)
(*                                                                         *)
(* The address geometry is scaled so that the tables can be enumerated:    *)
(* an address "byte" has BYTE_SIZE bits (8 in the source) and an address   *)
(* has CNE_FIB6_IPV6_ADDR_SIZE bytes (16 in the source); a table entry has *)
(* ENT_BITS bits (16, 32 or 64 in the source).  Every threshold of the     *)
(* code that is derived from these (24 = 3 bytes, 128, 256, UINT8_MAX,     *)
(* IPV6_MAX_IDX, the alignments to 8) is derived from them here as well,   *)
(* so the code's case analysis is kept level for level.                    *)
(*                                                                         *)
(* The RIB (cne_rib6), get_msk_part, get_max_nh and the lookup walk live   *)
(* outside trie.c; they are modelled from their contract.                  *)
(***************************************************************************)
EXTENDS Integers, Sequences, FiniteSets, TLC

----------------------------------------------------------------------------
(* Geometry *)

BYTE_SIZE == 2
CNE_FIB6_IPV6_ADDR_SIZE == 5
TBL24_BYTES == 3
ENT_BITS == 4

BYTE_MOD == 2 ^ BYTE_SIZE
UINT8_MAX == BYTE_MOD - 1
TRIE_TBL8_GRP_NUM_ENT == BYTE_MOD
TRIE_TBL24_NUM_ENT == BYTE_MOD ^ TBL24_BYTES
TRIE_EXT_ENT == 1
ENT_MOD == 2 ^ ENT_BITS
CNE_FIB6_MAXDEPTH == CNE_FIB6_IPV6_ADDR_SIZE * BYTE_SIZE
DEPTH24 == TBL24_BYTES * BYTE_SIZE
IPV6_MAX_IDX == CNE_FIB6_IPV6_ADDR_SIZE - 1
TBL8_LEN == CNE_FIB6_IPV6_ADDR_SIZE - TBL24_BYTES

EINVAL == 22
ENOSPC == 28
ENOENT == 2

CNE_FIB6_ADD == 0
CNE_FIB6_DEL == 1

LEDGE == 0
REDGE == 1

CNE_MAX(a, b) == IF a > b THEN a ELSE b
CNE_MIN(a, b) == IF a < b THEN a ELSE b
CNE_ALIGN_FLOOR(v, a) == v - (v % a)
CNE_ALIGN_CEIL(v, a) == CNE_ALIGN_FLOOR(v + a - 1, a)

get_max_nh == 2 ^ (ENT_BITS - 1) - 1

ByteIdx == 0 .. IPV6_MAX_IDX
Addr == [ByteIdx -> 0 .. UINT8_MAX]
ZeroAddr == [i \in ByteIdx |-> 0]

RECURSIVE AddrVal(_, _)
AddrVal(ip, n) ==
    IF n = 0 THEN 0 ELSE AddrVal(ip, n - 1) * BYTE_MOD + ip[n - 1]

----------------------------------------------------------------------------
(* RIB: the set of installed prefixes.  A node is [ip, depth, nh].         *)

NULL == [ip |-> ZeroAddr, depth |-> -1, nh |-> 0]

get_msk_part(depth, byte) ==
    LET part == CNE_MIN(CNE_MAX(CNE_MIN(depth, CNE_FIB6_MAXDEPTH) - byte * BYTE_SIZE, 0),
                        BYTE_SIZE)
    IN  BYTE_MOD - 2 ^ (BYTE_SIZE - part)

\* x & get_msk_part(depth, byte): the mask keeps the top `part` bits
MaskByte(x, depth, byte) ==
    LET low == BYTE_MOD - get_msk_part(depth, byte) IN x - (x % low)

MaskAddr(ip, depth) == [i \in ByteIdx |-> MaskByte(ip[i], depth, i)]

is_covered(ip1, ip2, depth) == MaskAddr(ip1, depth) = MaskAddr(ip2, depth)

cne_rib6_is_equal(a, b) == a = b

cne_rib6_lookup(rib, ip) ==
    LET m == {n \in rib : is_covered(ip, n.ip, n.depth)}
    IN  IF m = {} THEN NULL
        ELSE CHOOSE n \in m : \A o \in m : o.depth <= n.depth

cne_rib6_lookup_exact(rib, ip, depth) ==
    LET m == {n \in rib : n.depth = depth /\ n.ip = MaskAddr(ip, depth)}
    IN  IF m = {} THEN NULL ELSE CHOOSE n \in m : TRUE

cne_rib6_lookup_parent(rib, node) ==
    LET m == {n \in rib : n.depth < node.depth /\ is_covered(node.ip, n.ip, n.depth)}
    IN  IF m = {} THEN NULL
        ELSE CHOOSE n \in m : \A o \in m : o.depth <= n.depth

\* CNE_RIB6_GET_NXT_COVER: the topmost prefixes strictly more specific than
\* ip/depth, in ascending address order; `last` is the one returned before.
cne_rib6_get_nxt(rib, ip, depth, last) ==
    LET sub == {n \in rib : n.depth > depth /\ is_covered(n.ip, ip, depth)}
        top == {n \in sub : ~ \E o \in sub : o.depth < n.depth /\ is_covered(n.ip, o.ip, o.depth)}
        rest == IF last = NULL THEN top
                ELSE {n \in top : AddrVal(n.ip, CNE_FIB6_IPV6_ADDR_SIZE)
                                    > AddrVal(last.ip, CNE_FIB6_IPV6_ADDR_SIZE)}
    IN  IF rest = {} THEN NULL
        ELSE CHOOSE n \in rest : \A o \in rest :
                 AddrVal(n.ip, CNE_FIB6_IPV6_ADDR_SIZE) <= AddrVal(o.ip, CNE_FIB6_IPV6_ADDR_SIZE)

cne_rib6_insert(rib, ip, depth) ==
    rib \cup {[ip |-> MaskAddr(ip, depth), depth |-> depth, nh |-> 0]}

cne_rib6_set_nh(rib, node, nh) ==
    (rib \ {node}) \cup {[node EXCEPT !.nh = nh]}

cne_rib6_remove(rib, ip, depth) ==
    {n \in rib : ~(n.depth = depth /\ n.ip = MaskAddr(ip, depth))}

----------------------------------------------------------------------------
(* Packed table store.  A pointer to an entry is [tbl, idx]; tbl is        *)
(* "tbl24", "tbl8" or "val" (the address of write_edge's local val).       *)

Ptr(tbl, idx) == [tbl |-> tbl, idx |-> idx]

\* a statement followed by the rest of its function: K is the rest, a the
\* value the statement produced (computed once, however often K reads it)
Bind(a, K(_)) == K(a)

get_tbl_p_by_idx(tbl, idx) == Ptr(tbl.tbl, tbl.idx + idx)

write_to_dp(dp, ptr, val, n) ==
    LET v == val % ENT_MOD
        fill(arr) == [i \in DOMAIN arr |->
                        IF i >= ptr.idx /\ i < ptr.idx + n THEN v ELSE arr[i]]
    IN  IF n <= 0 THEN dp
        ELSE IF ptr.tbl = "tbl24" THEN [dp EXCEPT !.tbl24 = fill(@)]
        ELSE IF ptr.tbl = "tbl8"
        THEN [dp EXCEPT !.tbl8 = fill(@), !.tbl8_writes = @ + 1]
        ELSE [dp EXCEPT !.val = v]

get_val_by_p(dp, p) ==
    IF p.tbl = "tbl24" THEN dp.tbl24[p.idx]
    ELSE IF p.tbl = "tbl8" THEN dp.tbl8[p.idx]
    ELSE dp.val

get_tbl_val_by_idx(dp, tbl, idx) == get_val_by_p(dp, Ptr(tbl, idx))

is_ext(val) == val % 2 = TRIE_EXT_ENT

----------------------------------------------------------------------------
(* Stride-page pool *)

tbl8_pool_init(num) == [i \in 0 .. num - 1 |-> i]

tbl8_get_cursor_kept(dp) ==
    IF dp.tbl8_pool_pos = dp.number_tbl8s
    THEN [dp |-> [dp EXCEPT !.nospc = TRUE], ret |-> -ENOSPC]
    ELSE [dp |-> [dp EXCEPT !.allocs = @ + 1], ret |-> dp.tbl8_pool[dp.tbl8_pool_pos]]

\* returns [dp, ret]
tbl8_get(dp) ==
    IF dp.tbl8_pool_pos = dp.number_tbl8s
    THEN [dp |-> [dp EXCEPT !.nospc = TRUE], ret |-> -ENOSPC]
    ELSE [dp |-> [dp EXCEPT !.tbl8_pool_pos = @ + 1, !.allocs = @ + 1],
          ret |-> dp.tbl8_pool[dp.tbl8_pool_pos]]

\* --tbl8_pool_pos below 0 is an out-of-bounds store; it is recorded in
\* `underflow` and the pool is left as it is.
tbl8_put(dp, tbl8_ind) ==
    IF dp.tbl8_pool_pos = 0
    THEN [dp EXCEPT !.underflow = TRUE]
    ELSE [dp EXCEPT !.tbl8_pool_pos = @ - 1,
                    !.tbl8_pool[dp.tbl8_pool_pos - 1] = tbl8_ind]

tbl8_alloc(dp, nh) ==
    Bind(tbl8_get(dp), LAMBDA g :
        IF g.ret < 0 THEN g
        ELSE [dp |-> write_to_dp(g.dp, Ptr("tbl8", g.ret * TRIE_TBL8_GRP_NUM_ENT), nh,
                                 TRIE_TBL8_GRP_NUM_ENT),
              ret |-> g.ret])

\* every call of tbl8_recycle is recorded in `recycled`: the page examined,
\* its entries at that moment and whether the call gave the page back
examine(dp, tbl8_idx, freed) ==
    [dp EXCEPT !.recycled = Append(@,
        [page |-> tbl8_idx,
         ents |-> [i \in 0 .. TRIE_TBL8_GRP_NUM_ENT - 1 |->
                      dp.tbl8[tbl8_idx * TRIE_TBL8_GRP_NUM_ENT + i]],
         freed |-> freed])]

tbl8_recycle_parent_kept(dp, par, tbl8_idx) ==
    LET base == tbl8_idx * TRIE_TBL8_GRP_NUM_ENT
        nh == dp.tbl8[base]
    IN  IF is_ext(nh) THEN examine(dp, tbl8_idx, FALSE)
        ELSE IF \E i \in 1 .. TRIE_TBL8_GRP_NUM_ENT - 1 : dp.tbl8[base + i] # nh
        THEN examine(dp, tbl8_idx, FALSE)
        ELSE tbl8_put(write_to_dp(examine(dp, tbl8_idx, TRUE),
                                  Ptr("tbl8", base), 0, TRIE_TBL8_GRP_NUM_ENT),
                      tbl8_idx)

tbl8_recycle(dp, par, tbl8_idx) ==
    LET base == tbl8_idx * TRIE_TBL8_GRP_NUM_ENT
        nh == dp.tbl8[base]
    IN  IF is_ext(nh) THEN examine(dp, tbl8_idx, FALSE)
        ELSE IF \E i \in 1 .. TRIE_TBL8_GRP_NUM_ENT - 1 : dp.tbl8[base + i] # nh
        THEN examine(dp, tbl8_idx, FALSE)
        ELSE tbl8_put(write_to_dp(write_to_dp(examine(dp, tbl8_idx, TRUE), par, nh, 1),
                                  Ptr("tbl8", base), 0, TRIE_TBL8_GRP_NUM_ENT),
                      tbl8_idx)

----------------------------------------------------------------------------
(* Trie engine *)

RECURSIVE get_idx_loop(_, _, _, _)
get_idx_loop(ip, i, bytes, first_byte) ==
    IF i < first_byte + bytes /\ i < CNE_FIB6_IPV6_ADDR_SIZE
    THEN ip[i] * BYTE_MOD ^ ((first_byte + bytes - 1) - i)
         + get_idx_loop(ip, i + 1, bytes, first_byte)
    ELSE 0

get_idx(ip, prev_idx, bytes, first_byte) ==
    prev_idx * TRIE_TBL8_GRP_NUM_ENT + get_idx_loop(ip, first_byte, bytes, first_byte)

get_tbl24_p(ip) == Ptr("tbl24", get_idx(ip, 0, TBL24_BYTES, 0))

\* ip_part is the pair (ip, off)
RECURSIVE recycle_root_path(_, _, _, _, _)
recycle_root_path(dp, ip, off, common_tbl8, prev) ==
    LET val == get_val_by_p(dp, prev)
    IN  IF ~is_ext(val) THEN dp
        ELSE LET p == Ptr("tbl8", (val \div 2) * TRIE_TBL8_GRP_NUM_ENT + ip[off])
                 d1 == IF common_tbl8 # 0
                       THEN recycle_root_path(dp, ip, off + 1, common_tbl8 - 1, p)
                       ELSE dp
             IN  tbl8_recycle(d1, prev, val \div 2)

\* returns [dp, ret, tbl]; tbl is the base of the common root table
RECURSIVE build_common_root_loop(_, _, _, _, _, _, _)
build_common_root_loop(dp, ip, common_bytes, i, j, prev_idx, cur_tbl) ==
    IF i > common_bytes
    THEN [dp |-> dp, ret |-> 0,
          tbl |-> Ptr(cur_tbl, prev_idx * TRIE_TBL8_GRP_NUM_ENT)]
    ELSE LET idx == get_idx(ip, prev_idx, i - j, j)
             val == get_tbl_val_by_idx(dp, cur_tbl, idx)
             tbl_ptr == Ptr(cur_tbl, idx)
         IN  IF ~is_ext(val)
             THEN Bind(tbl8_alloc(dp, val), LAMBDA a :
                      IF a.ret < 0
                      THEN [dp |-> a.dp, ret |-> a.ret, tbl |-> Ptr("tbl24", 0)]
                      ELSE build_common_root_loop(
                               write_to_dp(a.dp, tbl_ptr, a.ret * 2 + TRIE_EXT_ENT, 1),
                               ip, common_bytes, i + 1, i, a.ret, "tbl8"))
             ELSE build_common_root_loop(dp, ip, common_bytes, i + 1, i, val \div 2, "tbl8")

build_common_root(dp, ip, common_bytes) ==
    build_common_root_loop(dp, ip, common_bytes, 3, 0, 0, "tbl24")

\* returns [dp, ret]
RECURSIVE write_edge(_, _, _, _, _, _, _)
write_edge(dp, ip, off, next_hop, len, edge, ent) ==
    IF len # 0
    THEN LET val0 == get_val_by_p(dp, ent)
         IN
         Bind(IF is_ext(val0) THEN [dp |-> dp, ret |-> val0 \div 2]
              ELSE tbl8_alloc(dp, val0), LAMBDA a :
         IF a.ret < 0 THEN a
         ELSE
         LET tbl8_idx == a.ret
             val1 == IF is_ext(val0) THEN val0 ELSE tbl8_idx * 2 + TRIE_EXT_ENT
             p == Ptr("tbl8", tbl8_idx * TRIE_TBL8_GRP_NUM_ENT + ip[off])
         IN
         Bind(write_edge(a.dp, ip, off + 1, next_hop, len - 1, edge, p), LAMBDA r :
         IF r.ret < 0 THEN r
         ELSE
         LET w == IF edge = LEDGE
                  THEN write_to_dp(r.dp, Ptr("tbl8", p.idx + 1), next_hop * 2,
                                   UINT8_MAX - ip[off])
                  ELSE write_to_dp(r.dp,
                                   Ptr("tbl8", tbl8_idx * TRIE_TBL8_GRP_NUM_ENT),
                                   next_hop * 2, ip[off])
         IN
         Bind(tbl8_recycle([w EXCEPT !.val = val1], Ptr("val", 0), tbl8_idx), LAMBDA c :
         [dp |-> [write_to_dp(c, ent, c.val, 1) EXCEPT !.val = 0],
          ret |-> r.ret])))
    ELSE [dp |-> write_to_dp(dp, ent, next_hop * 2, 1), ret |-> 0]

\* redge = r - 1 with borrow, as the decrement loop of install_to_dp
RECURSIVE dec_redge(_, _)
dec_redge(redge, i) ==
    IF i < 0 THEN redge
    ELSE LET b == (redge[i] - 1) % BYTE_MOD
             nx == [redge EXCEPT ![i] = b]
         IN  IF b # UINT8_MAX THEN nx ELSE dec_redge(nx, i - 1)

RECURSIVE common_bytes_loop(_, _, _)
common_bytes_loop(ledge, redge, common_bytes) ==
    IF common_bytes < IPV6_MAX_IDX /\ ledge[common_bytes] = redge[common_bytes]
    THEN common_bytes_loop(ledge, redge, common_bytes + 1)
    ELSE common_bytes

\* for (i = IPV6_MAX_IDX; i > first_tbl8_byte; i--) if (e[i] != pad) break;
RECURSIVE edge_scan(_, _, _, _)
edge_scan(e, pad, first_tbl8_byte, i) ==
    IF i > first_tbl8_byte /\ e[i] = pad
    THEN edge_scan(e, pad, first_tbl8_byte, i - 1)
    ELSE i

middle_fill_skipped(dp, common_root_tbl, left_idx, right_idx, next_hop) == dp

\* the entries strictly between the two edges, in the common root table
middle_fill(dp, common_root_tbl, left_idx, right_idx, next_hop) ==
    IF right_idx > left_idx + 1
    THEN write_to_dp(dp, get_tbl_p_by_idx(common_root_tbl, left_idx + 1),
                     next_hop * 2, right_idx - (left_idx + 1))
    ELSE dp

install_to_dp_root_first(dp, ledge, r, next_hop) ==
    LET redge == dec_redge(r, IPV6_MAX_IDX)
        common_bytes == common_bytes_loop(ledge, redge, 0)
    IN
    Bind(build_common_root(dp, ledge, common_bytes), LAMBDA b :
    IF b.ret # 0 THEN [dp |-> b.dp, ret |-> b.ret]
    ELSE
    LET common_root_tbl == b.tbl
        first_tbl8_byte == CNE_MAX(common_bytes, TBL24_BYTES)
        lt3 == IF common_bytes < 3 THEN 1 ELSE 0
        llen == edge_scan(ledge, 0, first_tbl8_byte, IPV6_MAX_IDX)
                  - first_tbl8_byte + lt3
        rlen == edge_scan(redge, UINT8_MAX, first_tbl8_byte, IPV6_MAX_IDX)
                  - first_tbl8_byte + lt3
        first_byte_idx == IF common_bytes < 3 THEN 0 ELSE common_bytes
        first_idx_len == IF common_bytes < 3 THEN 3 ELSE 1
        left_idx == get_idx(ledge, 0, first_idx_len, first_byte_idx)
        right_idx == get_idx(redge, 0, first_idx_len, first_byte_idx)
        common_tbl8 == IF common_bytes < TBL24_BYTES THEN 0
                       ELSE common_bytes - (TBL24_BYTES - 1)
    IN
    Bind(write_edge(recycle_root_path(b.dp, ledge, TBL24_BYTES, common_tbl8,
                                      get_tbl24_p(ledge)),
                    ledge, first_tbl8_byte + (1 - lt3), next_hop, llen,
                    LEDGE, get_tbl_p_by_idx(common_root_tbl, left_idx)), LAMBDA l :
    IF l.ret < 0 THEN l
    ELSE
    LET m == middle_fill(l.dp, common_root_tbl, left_idx, right_idx, next_hop)
    IN
    Bind(write_edge(m, redge, first_tbl8_byte + (1 - lt3), next_hop, rlen,
                    REDGE, get_tbl_p_by_idx(common_root_tbl, right_idx)), LAMBDA rr :
    rr)))

\* returns [dp, ret]
install_to_dp(dp, ledge, r, next_hop) ==
    LET redge == dec_redge(r, IPV6_MAX_IDX)
        common_bytes == common_bytes_loop(ledge, redge, 0)
    IN
    Bind(build_common_root(dp, ledge, common_bytes), LAMBDA b :
    IF b.ret # 0 THEN [dp |-> b.dp, ret |-> b.ret]
    ELSE
    LET common_root_tbl == b.tbl
        first_tbl8_byte == CNE_MAX(common_bytes, TBL24_BYTES)
        lt3 == IF common_bytes < 3 THEN 1 ELSE 0
        llen == edge_scan(ledge, 0, first_tbl8_byte, IPV6_MAX_IDX)
                  - first_tbl8_byte + lt3
        rlen == edge_scan(redge, UINT8_MAX, first_tbl8_byte, IPV6_MAX_IDX)
                  - first_tbl8_byte + lt3
        first_byte_idx == IF common_bytes < 3 THEN 0 ELSE common_bytes
        first_idx_len == IF common_bytes < 3 THEN 3 ELSE 1
        left_idx == get_idx(ledge, 0, first_idx_len, first_byte_idx)
        right_idx == get_idx(redge, 0, first_idx_len, first_byte_idx)
    IN
    Bind(write_edge(b.dp, ledge, first_tbl8_byte + (1 - lt3), next_hop, llen,
                    LEDGE, get_tbl_p_by_idx(common_root_tbl, left_idx)), LAMBDA l :
    IF l.ret < 0 THEN l
    ELSE
    LET m == middle_fill(l.dp, common_root_tbl, left_idx, right_idx, next_hop)
    IN
    Bind(write_edge(m, redge, first_tbl8_byte + (1 - lt3), next_hop, rlen,
                    REDGE, get_tbl_p_by_idx(common_root_tbl, right_idx)), LAMBDA rr :
    IF rr.ret < 0 THEN rr
    ELSE
    LET common_tbl8 == IF common_bytes < TBL24_BYTES THEN 0
                       ELSE common_bytes - (TBL24_BYTES - 1)
    IN  [dp |-> recycle_root_path(rr.dp, ledge, TBL24_BYTES, common_tbl8,
                                  get_tbl24_p(ledge)),
         ret |-> 0])))

----------------------------------------------------------------------------
(* Modify driver *)

RECURSIVE part_depth_loop(_, _)
part_depth_loop(i, part_depth) ==
    IF part_depth > BYTE_SIZE THEN part_depth_loop(i + 1, part_depth - BYTE_SIZE)
    ELSE [i |-> i, part_depth |-> part_depth]

RECURSIVE carry_loop(_, _)
carry_loop(ip, i) ==
    IF i > 0
    THEN LET b == (ip[i - 1] + 1) % BYTE_MOD
             nx == [ip EXCEPT ![i - 1] = b]
         IN  IF b # 0 THEN nx ELSE carry_loop(nx, i - 1)
    ELSE ip

get_nxt_net(ip, depth) ==
    LET s == part_depth_loop(0, depth)
        i == s.i
        prev_byte == ip[i]
        nb == (ip[i] + 2 ^ (BYTE_SIZE - s.part_depth)) % BYTE_MOD
        ip1 == [ip EXCEPT ![i] = nb]
    IN  IF nb < prev_byte THEN carry_loop(ip1, i) ELSE ip1

\* the do { } while (tmp) loop of modify_dp; `tmp` is the node returned by
\* the previous iteration.  Returns [dp, ret].
RECURSIVE modify_dp_loop(_, _, _, _, _, _, _)
modify_dp_loop(dp, rib, ip, depth, next_hop, ledge, last) ==
    Bind(cne_rib6_get_nxt(rib, ip, depth, last), LAMBDA tmp :
    IF tmp # NULL
    THEN IF tmp.depth = depth
         THEN modify_dp_loop(dp, rib, ip, depth, next_hop, ledge, tmp)
         ELSE LET redge == tmp.ip
              IN  IF cne_rib6_is_equal(ledge, redge)
                  THEN modify_dp_loop(dp, rib, ip, depth, next_hop,
                                      get_nxt_net(ledge, tmp.depth), tmp)
                  ELSE Bind(install_to_dp(dp, ledge, redge, next_hop), LAMBDA r :
                       IF r.ret # 0 THEN r
                       ELSE modify_dp_loop(r.dp, rib, ip, depth, next_hop,
                                           get_nxt_net(redge, tmp.depth), tmp))
    ELSE LET redge == get_nxt_net(ip, depth)
         IN  IF cne_rib6_is_equal(ledge, redge) THEN [dp |-> dp, ret |-> 0]
             ELSE install_to_dp(dp, ledge, redge, next_hop))

\* engine_ret records what modify_dp returned, for the caller's benefit only
modify_dp(dp, rib, ip, depth, next_hop) ==
    Bind(IF next_hop > get_max_nh THEN [dp |-> dp, ret |-> -EINVAL]
         ELSE modify_dp_loop(dp, rib, ip, depth, next_hop, ip, NULL), LAMBDA r :
    [dp |-> [r.dp EXCEPT !.engine_ret = r.ret], ret |-> r.ret])

\* rsvd >= (uint32_t)(num - diff): the subtraction wraps modulo 2^32.  The
\* 32-bit words are compared as pairs of 16-bit halves.
U16_MOD == 2 ^ 16
u32(x) == <<(x \div U16_MOD) % U16_MOD, x % U16_MOD>>
u32_ge(a, b) == a[1] > b[1] \/ (a[1] = b[1] /\ a[2] >= b[2])

gate_rejects(dp, depth, depth_diff) ==
    depth > DEPTH24 /\ u32_ge(u32(dp.rsvd_tbl8s), u32(dp.number_tbl8s - depth_diff))

\* depth_diff as computed at the head of trie_modify
get_depth_diff(rib, ip, ip_masked, depth) ==
    IF depth > DEPTH24
    THEN IF cne_rib6_get_nxt(rib, ip_masked, CNE_ALIGN_FLOOR(depth, BYTE_SIZE), NULL) = NULL
         THEN LET lk == cne_rib6_lookup(rib, ip)
                  parent_depth == IF lk # NULL THEN CNE_MAX(lk.depth, DEPTH24)
                                  ELSE DEPTH24
              IN  (CNE_ALIGN_CEIL(depth, BYTE_SIZE)
                     - CNE_ALIGN_CEIL(parent_depth, BYTE_SIZE)) \div BYTE_SIZE
         ELSE 0
    ELSE 0

Result(dp, rib, ret) == [dp |-> dp, rib |-> rib, ret |-> ret]

add_install_failed_keeps_node(r, rib1, ip_masked, depth) ==
    Result(r.dp, rib1, r.ret)

\* ADD, modify_dp failed after the node was inserted
add_install_failed(r, rib1, ip_masked, depth) ==
    Result(r.dp, cne_rib6_remove(rib1, ip_masked, depth), r.ret)

del_not_found_ignored(dp, rib) == Result(dp, rib, 0)

\* DEL, no exact node
del_not_found(dp, rib) == Result(dp, rib, -ENOENT)

add_same_as_parent_unchecked(parent, next_hop) == FALSE

\* ADD of a new node whose parent already has this next hop
add_same_as_parent(parent, next_hop) == parent # NULL /\ parent.nh = next_hop

trie_modify_add(dp, rib, max_nodes, ip_masked, depth, next_hop, depth_diff) ==
    LET node == cne_rib6_lookup_exact(rib, ip_masked, depth)
    IN  IF node # NULL
        THEN IF node.nh = next_hop THEN Result(dp, rib, 0)
             ELSE Bind(modify_dp(dp, rib, ip_masked, depth, next_hop), LAMBDA r :
                  Result(r.dp,
                         IF r.ret = 0 THEN cne_rib6_set_nh(rib, node, next_hop) ELSE rib,
                         0))
        ELSE IF gate_rejects(dp, depth, depth_diff) THEN Result(dp, rib, -ENOSPC)
        ELSE IF Cardinality(rib) >= max_nodes THEN Result(dp, rib, -1)
        ELSE
        LET ins == cne_rib6_insert(rib, ip_masked, depth)
            new == cne_rib6_lookup_exact(ins, ip_masked, depth)
            rib1 == cne_rib6_set_nh(ins, new, next_hop)
            node1 == [new EXCEPT !.nh = next_hop]
            parent == cne_rib6_lookup_parent(rib1, node1)
        IN  IF add_same_as_parent(parent, next_hop) THEN Result(dp, rib1, 0)
            ELSE Bind(modify_dp(dp, rib1, ip_masked, depth, next_hop), LAMBDA r :
                 IF r.ret # 0
                 THEN add_install_failed(r, rib1, ip_masked, depth)
                 ELSE Result([r.dp EXCEPT !.rsvd_tbl8s = @ + depth_diff], rib1, 0))

trie_modify_del(dp, rib, ip, ip_masked, depth, depth_diff) ==
    LET node == cne_rib6_lookup_exact(rib, ip_masked, depth)
    IN  IF node = NULL THEN del_not_found(dp, rib)
        ELSE
        LET parent == cne_rib6_lookup_parent(rib, node)
        IN
        Bind(IF parent # NULL
             THEN IF parent.nh # node.nh
                  THEN modify_dp(dp, rib, ip_masked, depth, parent.nh)
                  ELSE [dp |-> dp, ret |-> 0]
             ELSE modify_dp(dp, rib, ip_masked, depth, dp.def_nh), LAMBDA r :
        IF r.ret # 0 THEN Result(r.dp, rib, r.ret)
        ELSE Result([r.dp EXCEPT !.rsvd_tbl8s = @ - depth_diff],
                    cne_rib6_remove(rib, ip, depth), 0))

trie_modify(dp, rib, max_nodes, ip, depth, next_hop, op) ==
    IF depth > CNE_FIB6_MAXDEPTH THEN Result(dp, rib, -EINVAL)
    ELSE
    LET ip_masked == MaskAddr(ip, depth)
    IN
    Bind(get_depth_diff(rib, ip, ip_masked, depth), LAMBDA depth_diff :
    IF op = CNE_FIB6_ADD
    THEN trie_modify_add(dp, rib, max_nodes, ip_masked, depth, next_hop, depth_diff)
    ELSE IF op = CNE_FIB6_DEL
    THEN trie_modify_del(dp, rib, ip, ip_masked, depth, depth_diff)
    ELSE Result(dp, rib, -EINVAL))

trie_create(num_tbl8, def_nh) ==
    [tbl24 |-> [i \in 0 .. TRIE_TBL24_NUM_ENT - 1 |-> (def_nh * 2) % ENT_MOD],
     tbl8 |-> [i \in 0 .. TRIE_TBL8_GRP_NUM_ENT * (num_tbl8 + 1) - 1 |-> 0],
     def_nh |-> def_nh,
     number_tbl8s |-> num_tbl8,
     rsvd_tbl8s |-> 0,
     tbl8_pool |-> tbl8_pool_init(num_tbl8),
     tbl8_pool_pos |-> 0,
     val |-> 0, allocs |-> 0, nospc |-> FALSE, underflow |-> FALSE, engine_ret |-> 0,
     tbl8_writes |-> 0, recycled |-> <<>>]

----------------------------------------------------------------------------
(* Lookup walk and the reference longest-prefix match *)

RECURSIVE lookup_walk(_, _, _, _)
lookup_walk(dp, ip, tmp, j) ==
    IF is_ext(tmp)
    THEN IF j > IPV6_MAX_IDX THEN -1
         ELSE lookup_walk(dp, ip, dp.tbl8[ip[j] + (tmp \div 2) * TRIE_TBL8_GRP_NUM_ENT], j + 1)
    ELSE tmp \div 2

trie_lookup(dp, ip) ==
    lookup_walk(dp, ip, dp.tbl24[get_idx(ip, 0, TBL24_BYTES, 0)], TBL24_BYTES)

lpm(rib, def_nh, ip) ==
    LET n == cne_rib6_lookup(rib, ip) IN IF n = NULL THEN def_nh ELSE n.nh

----------------------------------------------------------------------------
(* State machine: a created table and a sequence of trie_modify calls      *)

\* dp, rib, max_nodes: the table, the RIB and the RIB's node limit.
\* call: the last trie_modify call and what it returned; pre: dp and rib
\* before that call; prev: call and pre of the call before it; all_ok: every
\* call so far returned 0.  In dp, the fields allocs, nospc, underflow and
\* engine_ret observe the last call (pages taken, tbl8_get refused, tbl8_put
\* on a full pool, modify_dp's return value).
VARIABLES dp, rib, max_nodes, call, pre, prev, ncalls, all_ok

vars == <<dp, rib, max_nodes, call, pre, prev, ncalls, all_ok>>

MaxCalls == 3
MaxTbl8 == 3
MaxNodes == 3

A5(a, b, c, d, e) == [i \in ByteIdx |-> <<a, b, c, d, e>>[i + 1]]

\* the inputs: two addresses (one of them the all-ones address), every
\* depth class (0, inside tbl24, the tbl24 boundary, one and two tbl8
\* levels, byte-aligned and not), two valid next hops and an invalid one
InAddrs == {A5(2, 1, 2, 1, 2), A5(3, 3, 3, 3, 3)}
InDepths == {0, 1, DEPTH24, DEPTH24 + 1, DEPTH24 + BYTE_SIZE,
             CNE_FIB6_MAXDEPTH - 1, CNE_FIB6_MAXDEPTH}
InNhs == {1, 2}
BadNh == get_max_nh + 1

\* the table configurations: a one-page pool with a small RIB, and a
\* MaxTbl8-page pool
\* with a default next hop that differs from the zero of a cleared page
Confs == {[num_tbl8 |-> 1, max_nodes |-> MaxNodes - 1, default_nh |-> 1],
          [num_tbl8 |-> MaxTbl8, max_nodes |-> MaxNodes, default_nh |-> 1]}

NoCall == [op |-> -1, ip |-> ZeroAddr, depth |-> 0, next_hop |-> 0, ret |-> 0,
           existed |-> FALSE, depth_diff |-> 0]
NoPre == [dp |-> trie_create(1, 0), rib |-> {}]

Init ==
    /\ \E c \in Confs : dp = trie_create(c.num_tbl8, c.default_nh) /\ max_nodes = c.max_nodes
    /\ rib = {}
    /\ call = NoCall
    /\ pre = NoPre
    /\ prev = [call |-> NoCall, pre |-> NoPre]
    /\ ncalls = 0
    /\ all_ok = TRUE

Modify(ip, depth, next_hop, op) ==
    /\ ncalls < MaxCalls
    /\ \E r \in {trie_modify([dp EXCEPT !.allocs = 0, !.nospc = FALSE,
                                         !.underflow = FALSE, !.engine_ret = 0,
                                         !.tbl8_writes = 0, !.recycled = <<>>],
                             rib, max_nodes, ip, depth, next_hop, op)} :
           /\ dp' = r.dp
           /\ rib' = r.rib
           /\ all_ok' = (all_ok /\ r.ret = 0)
           /\ call' = [op |-> op, ip |-> ip, depth |-> depth, next_hop |-> next_hop,
                       ret |-> r.ret,
                       existed |-> cne_rib6_lookup_exact(rib, ip, CNE_MIN(depth, CNE_FIB6_MAXDEPTH)) # NULL,
                       depth_diff |-> get_depth_diff(rib, ip, MaskAddr(ip, depth), depth)]
    /\ pre' = [dp |-> dp, rib |-> rib]
    /\ prev' = [call |-> call, pre |-> pre]
    /\ ncalls' = ncalls + 1
    /\ UNCHANGED max_nodes

Add == \E ip \in InAddrs, depth \in InDepths, nh \in InNhs :
           Modify(ip, depth, nh, CNE_FIB6_ADD)

Del == \E ip \in InAddrs, depth \in InDepths : Modify(ip, depth, 0, CNE_FIB6_DEL)

\* calls that break a precondition: next hop too large, depth too large,
\* unknown op
AddBadNh == \E ip \in InAddrs, depth \in InDepths : Modify(ip, depth, BadNh, CNE_FIB6_ADD)

BadDepth == \E ip \in InAddrs : Modify(ip, CNE_FIB6_MAXDEPTH + 1, 1, CNE_FIB6_ADD)

BadOpCall == \E ip \in InAddrs : Modify(ip, CNE_FIB6_MAXDEPTH, 1, CNE_FIB6_DEL + 1)

Next == Add \/ Del \/ AddBadNh \/ BadDepth \/ BadOpCall

Spec == Init /\ [][Next]_vars

----------------------------------------------------------------------------
(* install_to_dp on its own: range writes applied to a created table       *)

MaxInstalls == 3
OP_INSTALL == CNE_FIB6_DEL + 2

\* the edges: the zero address (as r it stands for 2^128), a tbl24 entry
\* and the next one, and two adjacent addresses inside the last page
InEdges == {ZeroAddr, A5(2, 1, 2, 0, 0), A5(2, 1, 2, 1, 2), A5(2, 1, 2, 1, 3),
            A5(2, 1, 3, 0, 0)}

\* ledge < r, where r = 0 stands for 2^128
EdgeBelow(ledge, r) ==
    r = ZeroAddr \/ AddrVal(ledge, CNE_FIB6_IPV6_ADDR_SIZE) < AddrVal(r, CNE_FIB6_IPV6_ADDR_SIZE)

Install ==
    /\ ncalls < MaxInstalls
    /\ \E ledge \in InEdges, r \in InEdges, next_hop \in InNhs :
         /\ EdgeBelow(ledge, r)
         /\ \E res \in {install_to_dp([dp EXCEPT !.allocs = 0, !.nospc = FALSE,
                                                  !.underflow = FALSE, !.engine_ret = 0,
                                                  !.tbl8_writes = 0, !.recycled = <<>>],
                                        ledge, r, next_hop)} :
              /\ dp' = res.dp
              /\ call' = [op |-> OP_INSTALL, ledge |-> ledge, r |-> r,
                          next_hop |-> next_hop, ret |-> res.ret]
              /\ all_ok' = (all_ok /\ res.ret = 0)
    /\ pre' = [dp |-> dp, rib |-> rib]
    /\ prev' = [call |-> call, pre |-> pre]
    /\ ncalls' = ncalls + 1
    /\ UNCHANGED <<rib, max_nodes>>

NextInstall == Install

SpecInstall == Init /\ [][NextInstall]_vars

----------------------------------------------------------------------------
(* Vocabulary of the properties *)

IsAdd == call.op = CNE_FIB6_ADD
IsDel == call.op = CNE_FIB6_DEL
ValidDepth(c) == c.depth <= CNE_FIB6_MAXDEPTH
Pfx(c) == [ip |-> MaskAddr(c.ip, c.depth), depth |-> c.depth]
InPrefix(k, c) == is_covered(k, c.ip, c.depth)
SameTables(a, b) == a.tbl24 = b.tbl24 /\ a.tbl8 = b.tbl8
SamePool(a, b) == a.tbl8_pool = b.tbl8_pool /\ a.tbl8_pool_pos = b.tbl8_pool_pos
FreePages(d) == {d.tbl8_pool[i] : i \in d.tbl8_pool_pos .. d.number_tbl8s - 1}
NewAdd == IsAdd /\ ValidDepth(call) /\ ~call.existed
Admitted == ~gate_rejects(pre.dp, call.depth, call.depth_diff)
RibHasRoom == Cardinality(pre.rib) < max_nodes

\* the pages that EXT entries among vals name
ExtPages(vals) == {v \div 2 : v \in {x \in vals : is_ext(x)}}

PageEntries(d, p) ==
    {d.tbl8[p * TRIE_TBL8_GRP_NUM_ENT + i] : i \in 0 .. TRIE_TBL8_GRP_NUM_ENT - 1}

\* the live pages: those reachable from tbl24 through chains of EXT entries
RECURSIVE Reach(_, _, _)
Reach(d, frontier, seen) ==
    IF frontier \subseteq seen THEN seen
    ELSE Reach(d, UNION {ExtPages(PageEntries(d, p)) : p \in frontier \ seen},
               seen \cup frontier)

LivePages(d) == Reach(d, ExtPages({d.tbl24[i] : i \in DOMAIN d.tbl24}), {})

\* all entries of the page hold one non-EXT value
UniformPage(d, p) == \E v \in PageEntries(d, p) : PageEntries(d, p) = {v} /\ ~is_ext(v)

NoUniformLivePage(d) == \A p \in LivePages(d) : ~UniformPage(d, p)

TypeOK ==
    /\ dp.tbl8_pool_pos \in 0 .. dp.number_tbl8s
    /\ dp.rsvd_tbl8s >= 0

----------------------------------------------------------------------------
(* Properties *)

\* C1: after any sequence of trie_modify calls that each returned 0, the
\* lookup walk of every key returns the next hop of the longest RIB prefix
\* matching the key, or def_nh when none matches.
C1_LookupIsLpm ==
    all_ok => \A k \in Addr : trie_lookup(dp, k) = lpm(rib, dp.def_nh, k)

\* C2: round trip.  A successful ADD of a prefix that was not in the RIB,
\* followed at once by a successful DEL of it, leaves tbl24 and tbl8 as
\* they were before the ADD, and the same pages free.
C2_RoundTrip ==
    (/\ all_ok
     /\ IsDel /\ prev.call.op = CNE_FIB6_ADD /\ ~prev.call.existed
     /\ ValidDepth(call) /\ Pfx(call) = Pfx(prev.call))
    => /\ SameTables(dp, prev.pre.dp)
       /\ FreePages(dp) = FreePages(prev.pre.dp)

\* C3 (as claimed): an ADD whose next hop is what lookup already returns for
\* every key of the prefix returns 0, takes no page from the pool and leaves
\* tbl24, tbl8 and the pool unchanged.
C3_AddOfLookedUpNh ==
    (/\ IsAdd /\ ValidDepth(call)
     /\ \A k \in Addr : InPrefix(k, call) => trie_lookup(pre.dp, k) = call.next_hop)
    => /\ call.ret = 0
       /\ dp.allocs = 0
       /\ SameTables(dp, pre.dp) /\ SamePool(dp, pre.dp)

\* the next hop the RIB holds for the prefix of the call: its own node's, or
\* else its RIB parent's
AddRepeatsRib ==
    LET node == cne_rib6_lookup_exact(pre.rib, call.ip, call.depth)
        parent == cne_rib6_lookup_parent(pre.rib, [ip |-> MaskAddr(call.ip, call.depth),
                                                   depth |-> call.depth, nh |-> 0])
    IN  \/ node # NULL /\ node.nh = call.next_hop
        \/ /\ node = NULL /\ Admitted /\ RibHasRoom
           /\ parent # NULL /\ parent.nh = call.next_hop

\* C3 (amended): an ADD whose next hop is the one the RIB already records
\* for the prefix -- its own node's, or for a new prefix that passes the
\* admission gate and the RIB insert, its RIB parent's -- returns 0, takes
\* no page from the pool and leaves tbl24, tbl8 and the pool unchanged.
C3_AddOfRibNh ==
    (IsAdd /\ ValidDepth(call) /\ AddRepeatsRib)
    => /\ call.ret = 0
       /\ dp.allocs = 0
       /\ SameTables(dp, pre.dp) /\ SamePool(dp, pre.dp)

C3_Witness ==
    /\ NewAdd /\ AddRepeatsRib /\ call.depth > DEPTH24
    /\ rib # pre.rib

\* C4: an ADD of a new prefix deeper than 24 is rejected with -ENOSPC, the
\* RIB untouched, exactly when rsvd_tbl8s + depth_diff > num_tbl8; when the
\* sum equals num_tbl8 the ADD succeeds.
C4_GateBoundary ==
    (NewAdd /\ call.depth > DEPTH24)
    => LET need == pre.dp.rsvd_tbl8s + call.depth_diff
           rejected == call.ret = -ENOSPC /\ dp.allocs = 0 /\ ~dp.nospc /\ rib = pre.rib
       IN  /\ rejected <=> need > pre.dp.number_tbl8s
           /\ (need = pre.dp.number_tbl8s /\ call.next_hop <= get_max_nh /\ RibHasRoom)
                  => call.ret = 0

\* C5: an ADD of a new prefix that the admission pre-check lets through
\* never sees tbl8_get refuse a page.
C5_AdmittedAddNeverStarves ==
    (NewAdd /\ Admitted) => ~dp.nospc

\* C6: whenever modify_dp returns a non-zero code inside a call,
\* trie_modify returns a negative code.
C6_EngineErrorPropagates ==
    dp.engine_ret # 0 => call.ret < 0

\* C7: whenever an ADD returns a negative code, the RIB holds the prefixes
\* and next hops it held before the call, and rsvd_tbl8s is unchanged.
C7_FailedAddKeepsRib ==
    (IsAdd /\ call.ret < 0)
    => rib = pre.rib /\ dp.rsvd_tbl8s = pre.dp.rsvd_tbl8s

\* an ADD whose install failed after the node had been inserted
C7_Witness ==
    /\ NewAdd /\ Admitted /\ RibHasRoom
    /\ dp.engine_ret = -ENOSPC /\ dp.allocs > 0 /\ call.ret < 0
    /\ pre.rib # {}

\* C8: every call whose next_hop exceeds max_nh returns -EINVAL and changes
\* neither the RIB nor the tables.
C8_BadNhIsEinval ==
    call.next_hop > get_max_nh
    => call.ret = -EINVAL /\ rib = pre.rib /\ SameTables(dp, pre.dp)

\* C9: a DEL of a prefix that has no exact RIB node returns -ENOENT and
\* leaves the RIB, tbl24, tbl8, the pool and rsvd_tbl8s unchanged.
C9_DelOfMissing ==
    (IsDel /\ ValidDepth(call) /\ ~call.existed)
    => /\ call.ret = -ENOENT
       /\ rib = pre.rib
       /\ SameTables(dp, pre.dp) /\ SamePool(dp, pre.dp)
       /\ dp.rsvd_tbl8s = pre.dp.rsvd_tbl8s

\* the RIB holds the same address at another depth and pages are in use
C9_Witness ==
    /\ IsDel /\ ~call.existed /\ call.ret = -ENOENT
    /\ \E n \in rib : n.depth # call.depth /\ n.ip = MaskAddr(call.ip, n.depth)
    /\ dp.tbl8_pool_pos > 0

\* C10: after a successful ADD of ::/0 with next hop nh, every key whose
\* longest RIB match is ::/0 looks up to nh; after a successful DEL of ::/0
\* that follows, the keys no RIB prefix matches look up to def_nh.
C10_DefaultRoute ==
    /\ (IsAdd /\ call.depth = 0 /\ call.ret = 0 /\ call.next_hop <= get_max_nh)
       => \A k \in Addr : cne_rib6_lookup(rib, k).depth = 0
                            => trie_lookup(dp, k) = call.next_hop
    /\ (/\ IsDel /\ call.depth = 0 /\ call.ret = 0
        /\ prev.call.op = CNE_FIB6_ADD /\ prev.call.depth = 0 /\ prev.call.ret = 0)
       => \A k \in Addr : cne_rib6_lookup(rib, k) = NULL
                            => trie_lookup(dp, k) = dp.def_nh

\* the prefix of the call covers no longer prefix of the RIB
CoversNoLonger ==
    ~ \E n \in pre.rib : n.depth > call.depth /\ is_covered(n.ip, call.ip, call.depth)

\* C11: an ADD or DEL of a prefix of depth 24 that covers no longer prefix
\* of the RIB takes no tbl8 page from the pool, writes no tbl8 entry, and
\* is never refused a page.
C11_Depth24OnlyTbl24 ==
    ((IsAdd \/ IsDel) /\ call.depth = DEPTH24 /\ CoversNoLonger)
    => dp.allocs = 0 /\ dp.tbl8_writes = 0 /\ ~dp.nospc

\* the all-ones address, and the order of the keys
AllOnes == [i \in ByteIdx |-> UINT8_MAX]
Key(k) == AddrVal(k, CNE_FIB6_IPV6_ADDR_SIZE)

\* the prefix of the call ends at the all-ones address: ip + 2^(128 - depth)
\* overflows to 0
EndsAtAllOnes(c) == c.depth >= 1 /\ ValidDepth(c) /\ InPrefix(AllOnes, c)

\* the last key of the prefix of the call that a longer prefix of the RIB
\* covers; -1 when there is none
LastCoveredKey ==
    LET ends == {Key(n.ip) + 2 ^ (CNE_FIB6_MAXDEPTH - n.depth) - 1 :
                   n \in {m \in pre.rib : m.depth > call.depth
                                            /\ is_covered(m.ip, call.ip, call.depth)}}
    IN  IF ends = {} THEN -1 ELSE CHOOSE e \in ends : \A o \in ends : o <= e

\* the keys of the last sub-range of the prefix of the call: those above
\* every key that a longer prefix of the RIB covers
InLastSubRange(k) == InPrefix(k, call) /\ Key(k) > LastCoveredKey

\* C12: a successful ADD of a prefix (depth >= 1) that ends at the all-ones
\* address makes every key of its last sub-range, up to and including the
\* all-ones address, look up to the new next hop, and changes the lookup of
\* no key outside the prefix.
C12_WrapBoundary ==
    (IsAdd /\ call.ret = 0 /\ EndsAtAllOnes(call))
    => /\ \A k \in Addr : InLastSubRange(k) => trie_lookup(dp, k) = call.next_hop
       /\ \A k \in Addr : ~InPrefix(k, call)
                             => trie_lookup(dp, k) = trie_lookup(pre.dp, k)

IsInstall == call.op = OP_INSTALL

\* ledge <= k < r, where r = 0 stands for 2^128
InRange(k, ledge, r) == Key(ledge) <= Key(k) /\ (r = ZeroAddr \/ Key(k) < Key(r))

\* C13: when install_to_dp(ledge, r, nh) with ledge < r returns 0 on a
\* table without a live uniform non-EXT page, every key in [ledge, r) looks
\* up to nh and every other key looks up as before the call.
C13_RangeWrite ==
    (IsInstall /\ call.ret = 0 /\ NoUniformLivePage(pre.dp))
    => \A k \in Addr :
          trie_lookup(dp, k) = IF InRange(k, call.ledge, call.r) THEN call.next_hop
                               ELSE trie_lookup(pre.dp, k)

\* a range written over a table that holds live pages, some of which stay
C13_Witness ==
    /\ IsInstall /\ call.ret = 0 /\ NoUniformLivePage(pre.dp)
    /\ LivePages(pre.dp) # {} /\ LivePages(dp) # {}
    /\ dp.tbl8_writes > 0
    /\ \E k \in Addr : trie_lookup(dp, k) # trie_lookup(pre.dp, k)

IsModify == call.op \in {CNE_FIB6_ADD, CNE_FIB6_DEL, CNE_FIB6_DEL + 1}

\* C14: after every trie_modify call, whatever it returned, no live page
\* has all its entries equal to one non-EXT value.
C14_NoUniformLivePage ==
    IsModify => NoUniformLivePage(dp)

\* C15: after every trie_modify call, whatever it returned, the number of
\* live pages equals the number of pages taken from the pool.
C15_NoPageLeak ==
    IsModify => Cardinality(LivePages(dp)) = dp.tbl8_pool_pos

\* the free part of the pool, as positions
FreeSlots(d) == d.tbl8_pool_pos .. d.number_tbl8s - 1

\* C16: in every state 0 <= tbl8_pool_pos <= num_tbl8, the free part of the
\* pool holds pairwise distinct page indices in [0, num_tbl8), and tbl8_put
\* was never called with the cursor at 0.
C16_PoolWellFormed ==
    /\ dp.tbl8_pool_pos \in 0 .. dp.number_tbl8s
    /\ \A i \in FreeSlots(dp) : dp.tbl8_pool[i] \in 0 .. dp.number_tbl8s - 1
    /\ \A i, j \in FreeSlots(dp) : i # j => dp.tbl8_pool[i] # dp.tbl8_pool[j]
    /\ ~dp.underflow

\* pages went back to the pool in another order than they were taken
C16_Witness ==
    /\ dp.tbl8_pool_pos < pre.dp.tbl8_pool_pos
    /\ dp.tbl8_pool_pos > 0
    /\ Cardinality(FreeSlots(dp)) >= 2
    /\ \E i \in FreeSlots(dp) : dp.tbl8_pool[i] # i

\* the EXT entries of tbl24 and of the live pages, as <<table, index, page>>
ExtEntries(d) ==
    {<<"tbl24", i, d.tbl24[i] \div 2>> : i \in {j \in DOMAIN d.tbl24 : is_ext(d.tbl24[j])}}
    \cup
    {<<"tbl8", i, d.tbl8[i] \div 2>> :
       i \in {j \in DOMAIN d.tbl8 : /\ (j \div TRIE_TBL8_GRP_NUM_ENT) \in LivePages(d)
                                     /\ is_ext(d.tbl8[j])}}

\* C17: between modify calls every EXT entry of tbl24 or of a live page
\* names a page in [0, num_tbl8) that is not in the free part of the pool,
\* and no two such entries name the same page.
C17_ExclusiveOwnership ==
    /\ \A e \in ExtEntries(dp) : /\ e[3] \in 0 .. dp.number_tbl8s - 1
                                 /\ e[3] \notin FreePages(dp)
    /\ \A e, f \in ExtEntries(dp) : e # f => e[3] # f[3]

\* a call took pages and left a two-level chain of them, with a page free
C17_Witness ==
    /\ \E e \in ExtEntries(dp) : e[1] = "tbl8"
    /\ Cardinality(ExtEntries(dp)) >= 2
    /\ dp.allocs > 0
    /\ FreePages(dp) # {}

\* C18: a successful ADD of a prefix deeper than 24 that was not in the
\* RIB, followed at once by a successful DEL of it, leaves rsvd_tbl8s at
\* its value before the ADD.
C18_ReservationRoundTrip ==
    (/\ IsDel /\ call.ret = 0
     /\ prev.call.op = CNE_FIB6_ADD /\ prev.call.ret = 0 /\ ~prev.call.existed
     /\ ValidDepth(call) /\ call.depth > DEPTH24 /\ Pfx(call) = Pfx(prev.call))
    => dp.rsvd_tbl8s = prev.pre.dp.rsvd_tbl8s

\* C19: after any sequence of trie_modify calls that each returned 0,
\* rsvd_tbl8s is at least the number of live pages.
C19_NeverUnderReserves ==
    all_ok => dp.rsvd_tbl8s >= Cardinality(LivePages(dp))

----------------------------------------------------------------------------
\* the pages an examined page named through its EXT entries when examined
Kids(e) == {e.ents[i] \div 2 : i \in {x \in DOMAIN e.ents : is_ext(e.ents[x])}}

\* the entries of page p as the function 0 .. TRIE_TBL8_GRP_NUM_ENT - 1 -> value
PageFn(d, p) ==
    [i \in 0 .. TRIE_TBL8_GRP_NUM_ENT - 1 |-> d.tbl8[p * TRIE_TBL8_GRP_NUM_ENT + i]]

\* C20: within one install_to_dp call pages are examined bottom-up.  Whenever
\* tbl8_recycle examines a page, every child page of it that the call
\* examines at all (the pages of the written left-edge, right-edge and
\* common-root paths) has been examined before, and none of them collapses
\* afterwards; the entries a page shows at its last examination, the entries
\* for its children included, are the ones it holds when the call returns.
C20_RecyclingOrder ==
    IsInstall =>
        \A j \in DOMAIN dp.recycled :
            /\ \A c \in Kids(dp.recycled[j]) :
                   (\E i \in DOMAIN dp.recycled : dp.recycled[i].page = c)
                   => /\ \E i \in 1 .. j - 1 : dp.recycled[i].page = c
                      /\ \A i \in DOMAIN dp.recycled :
                             i > j /\ dp.recycled[i].page = c => ~dp.recycled[i].freed
            /\ ( /\ ~dp.recycled[j].freed
                 /\ \A i \in DOMAIN dp.recycled :
                        i > j => dp.recycled[i].page # dp.recycled[j].page )
               => PageFn(dp, dp.recycled[j].page) = dp.recycled[j].ents

\* an install that examined a page after a child of it, one page of the call
\* having collapsed into its parent entry
C20_Witness ==
    /\ IsInstall
    /\ call.ret = 0
    /\ \E j \in DOMAIN dp.recycled : \E c \in Kids(dp.recycled[j]) :
           \E i \in 1 .. j - 1 : dp.recycled[i].page = c
    /\ \E i \in DOMAIN dp.recycled : dp.recycled[i].freed

====
